---- MODULE Spec2Model ----
(***************************************************************************)
(* Order lifecycle of the Indiyummm backend.  The repository holds three   *)
(* versions of the order server, and the variable `variant` says which one *)
(* is running:                                                             *)
(*   "server"  - src/server.js           (create-order, verify-payment)    *)
(*   "part000" - src/unnamed/part_000    (the same, with more checks)      *)
(*   "part002" - src/unnamed/part_002    (adds cod, update-status, delete) *)
(* Node runs one handler at a time: a handler is atomic up to its `await`. *)
(***************************************************************************)
EXTENDS Integers, Sequences, FiniteSets, TLC

VARIABLES
    variant,              \* which of the three server files is running
    RAZORPAY_KEY_ID,      \* process.env.RAZORPAY_KEY_ID ("" when unset)
    RAZORPAY_KEY_SECRET,  \* process.env.RAZORPAY_KEY_SECRET ("" when unset)
    orders,               \* db.json: the orders array
    now,                  \* Date.now()
    gwSeq,                \* orders the payment gateway has created so far
    last,                 \* the request being answered and its response, Idle between requests
    running,              \* the handlers that hold a document they read and have not written yet
    users,                \* db.json: the users array
    rnd,                  \* values crypto.randomBytes has given out so far
    compared              \* the signature comparison made last, NoCompare before the first

\* what is fixed when the server starts
config == <<variant, RAZORPAY_KEY_ID, RAZORPAY_KEY_SECRET>>

\* the part of the state the order handlers never touch
auth == <<users, rnd, compared>>

vars == <<variant, RAZORPAY_KEY_ID, RAZORPAY_KEY_SECRET, orders, now, gwSeq,
          last, running, users, rnd, compared>>

----------------------------------------------------------------------------
(* Bounds *)
MaxOrders   == 2
MaxTime     == 2

----------------------------------------------------------------------------
(* JavaScript values: undefined, null and strings *)
Undefined == [t |-> "undefined", v |-> ""]
Null      == [t |-> "null", v |-> ""]
Str(s)    == [t |-> "string", v |-> s]

\* String(x) and `${x}`
ToStr(x) == IF x.t = "string" THEN x.v ELSE x.t

\* !!x
Truthy(x) == x.t = "string" /\ x.v # ""

\* a || b
OrElse(a, b) == IF Truthy(a) THEN a ELSE b

\* Numbers: the amount in thousandths of a rupee, or no amount at all
NoAmount    == [t |-> "undefined", n |-> 0]
Rupees(m)   == [t |-> "number", n |-> m]
TruthyNum(a) == a.t = "number" /\ a.n # 0

----------------------------------------------------------------------------
(* Configuration *)
Variants == {"server", "part000", "part002"}

\* part_002 falls back to keys written in the source
RZP_KEY_ID_of(f, env) ==
    IF f = "part002" THEN (IF env # "" THEN env ELSE "rzp_live") ELSE env

RZP_KEY_SECRET_of(f, env) ==
    IF f = "part002" THEN (IF env # "" THEN env ELSE "dflt") ELSE env

RZP_KEY_ID     == RZP_KEY_ID_of(variant, RAZORPAY_KEY_ID)
RZP_KEY_SECRET == RZP_KEY_SECRET_of(variant, RAZORPAY_KEY_SECRET)

\* the `razorpay` instance: null in part_000 and part_002 when a key is missing,
\* always constructed in server.js
razorpay ==
    IF variant = "server" THEN TRUE
    ELSE RZP_KEY_ID # "" /\ RZP_KEY_SECRET # ""

----------------------------------------------------------------------------
(* Pure helpers *)

\* a variant that drops the fraction of a paisa instead of rounding
amountPaiseFloor(amount) == amount.n \div 10

\* Math.round(Number(amount) * 100), amount in thousandths: round half up
amountPaise(amount) == (amount.n + 5) \div 10

\* crypto.createHmac("sha256", secret).update(msg).digest("hex"): the digest
\* is kept symbolic, one digest per (secret, message)
Hmac(secret, msg) == "hmac[" \o secret \o "][" \o msg \o "]"

generated_signature(secret, oid, pid) ==
    Hmac(secret, ToStr(oid) \o "|" \o ToStr(pid))

\* Array.prototype.findIndex over the answers the predicate gives for each
\* element in turn: 0-based, -1 when nothing matches
RECURSIVE findIndexFrom(_, _)
findIndexFrom(hits, i) ==
    IF i > Len(hits) THEN -1
    ELSE IF hits[i] THEN i - 1
    ELSE findIndexFrom(hits, i + 1)

findIndex(hits) == findIndexFrom(hits, 1)

----------------------------------------------------------------------------
(* Requests and responses *)
NoReq == [amount |-> NoAmount, currency |-> Undefined, receipt |-> Undefined,
          cod |-> FALSE, razorpay_order_id |-> Undefined,
          razorpay_payment_id |-> Undefined, razorpay_signature |-> Undefined,
          id |-> Undefined, status |-> Undefined, eta |-> Undefined]

NoRes == [code |-> 0, verified |-> FALSE, order_id |-> Undefined,
          amount |-> 0, currency |-> Undefined, receipt |-> Undefined]

\* no comparison made yet
NoCompare == [generated |-> <<>>, razorpay_signature |-> <<>>,
              verified |-> FALSE, examined |-> 0]

Idle == [op |-> "none", req |-> NoReq, res |-> NoRes, calls |-> {}]

\* the environments that behave differently.  server.js constructs its gateway
\* client at load, which needs both keys, so it only runs with both set;
\* part_000 also runs with only the secret set (no gateway client) and with no
\* secret; part_002 has its fallback keys, so its environment only says
\* whether the keys are set
Environments(f) ==
    IF f = "server" THEN {<<"kid", "sec">>}
    ELSE IF f = "part000" THEN {<<"kid", "sec">>, <<"", "sec">>, <<"", "">>}
    ELSE {<<"", "">>, <<"kid", "sec">>}

Init ==
    /\ variant \in Variants
    /\ \E env \in Environments(variant) :
          /\ RAZORPAY_KEY_ID = env[1]
          /\ RAZORPAY_KEY_SECRET = env[2]
    /\ orders = <<>>
    /\ now = 1
    /\ gwSeq = 0
    /\ last = Idle
    /\ running = <<>>
    /\ users = <<>>
    /\ rnd = 0
    /\ compared = NoCompare

----------------------------------------------------------------------------
(* Inputs the clients may send *)
\* no amount, Rs 500, and Rs 1.006 (which is not a whole number of paise)
AmountInputs   == {NoAmount, Rupees(500000), Rupees(1006)}
CurrencyInputs == {Undefined}
\* "undefined" is the receipt that String(receipt) confuses with no receipt;
\* part_002 compares receipts with === and never applies String() to them
ReceiptInputs  ==
    IF variant = "part002" THEN {Undefined, Str("r1")}
    ELSE {Undefined, Str("r1"), Str("undefined")}

\* only part_002 reads `cod` from the body
CodInputs == IF variant = "part002" THEN BOOLEAN ELSE {FALSE}

----------------------------------------------------------------------------
(* The store *)

\* an order as create-order writes it; a field the code never set is
\* Undefined (paid_at: 0), which is also how JSON.stringify drops it
NewOrder(id, receipt, oid, amount, paise, currency, eta) ==
    [id |-> id, receipt |-> receipt, razorpay_order_id |-> oid,
     amount |-> amount, amount_paise |-> paise, currency |-> currency,
     status |-> "created", created_at |-> id, eta |-> eta,
     razorpay_payment_id |-> Undefined, razorpay_signature |-> Undefined,
     paid_at |-> 0]

\* const { currency = "INR" } = req.body
currencyOf(req) == IF req.currency = Undefined THEN Str("INR") ELSE req.currency

CreateReq(amount, currency, receipt, cod) ==
    [NoReq EXCEPT !.amount = amount, !.currency = currency,
                  !.receipt = receipt, !.cod = cod]

\* res.status(code).json(body)
\* the collaborators a handler may call before it answers
ordersCreate == "razorpay.orders.create"
readDB       == "readDB"
writeDB      == "writeDB"

\* Respond(op, req, res, calls): the handler answers req with res, having made
\* these calls on the way
Respond(op, req, res, calls) ==
    last' = [op |-> op, req |-> req, res |-> res, calls |-> calls]

ErrorRes(code) == [NoRes EXCEPT !.code = code]

\* res.json({success: true, order_id, amount, currency, receipt, key_id})
CreatedRes(order_id, amount, currency, receipt) ==
    [NoRes EXCEPT !.code = 200, !.order_id = order_id, !.amount = amount,
                  !.currency = currency, !.receipt = receipt]

\* db.orders.push(order); writeDB(db); res.json(...)
PushOrder(req, o, res, calls) ==
    /\ orders' = Append(orders, o)
    /\ Respond("create", req, res, calls \cup {readDB, writeDB})

\* what razorpay.orders.create(options) resolves to: the gateway echoes the
\* options and assigns the next order id
rzpOrder(options) ==
    [id |-> Str("order_" \o ToString(gwSeq + 1)), amount |-> options.amount,
     currency |-> options.currency, receipt |-> options.receipt]

----------------------------------------------------------------------------
(* POST /create-order.  The handler reads the request and the clock, awaits  *)
(* the gateway, and only then reads and writes the store in one synchronous  *)
(* block.  The part before the await touches no shared state, so the handler *)
(* is one step taken when the gateway answers; t0 is when the request came.  *)

\* a variant that lets every request through to the gateway
CreateRejectsNothing(req) == 0

\* the status the handler answers with before it calls the gateway, 0 when it
\* goes on
CreateRejects(req) ==
    CASE variant = "server"  ->
            IF ~TruthyNum(req.amount) \/ ~Truthy(req.receipt) THEN 400 ELSE 0
      [] variant = "part000" ->
            IF ~TruthyNum(req.amount) THEN 400 ELSE IF ~razorpay THEN 500 ELSE 0
      [] variant = "part002" ->
            IF ~TruthyNum(req.amount) THEN 400 ELSE 0

\* `rcpt_${Date.now()}`
rcpt(t) == Str("rcpt_" \o ToString(t))

\* the receipt the handler goes on with
finalReceipt(req, t0) ==
    CASE variant = "server"  -> Str(ToStr(req.receipt))
      [] variant = "part000" -> Str(ToStr(OrElse(req.receipt, rcpt(t0))))
      [] variant = "part002" -> OrElse(req.receipt, rcpt(t0))

\* the options given to razorpay.orders.create
options(req, t0) ==
    [amount |-> amountPaise(req.amount), currency |-> currencyOf(req),
     receipt |-> finalReceipt(req, t0)]

\* a variant that goes to the gateway whenever there is a client, cod or not
CallsGatewayAlways(req) == razorpay

\* part_002 calls the gateway unless cod is asked for or razorpay is null
CallsGateway(req) == variant = "part002" => (~req.cod /\ razorpay)

\* the order each version stores once the gateway has answered with `order`
StoredOrder(req, t0, order) ==
    CASE variant = "server"  ->
            NewOrder(now, OrElse(order.receipt, req.receipt), order.id,
                     req.amount, amountPaise(req.amount), currencyOf(req),
                     Undefined)
      [] variant = "part000" ->
            NewOrder(now, OrElse(order.receipt, finalReceipt(req, t0)), order.id,
                     req.amount, order.amount, order.currency, Undefined)
      [] variant = "part002" ->
            NewOrder(now, finalReceipt(req, t0), order.id,
                     req.amount, order.amount, order.currency, Null)

\* a variant that answers with the receipt of the request, not the stored one
CreateResponseEcho(req, t0, order) ==
    CreatedRes(order.id, order.amount, order.currency, req.receipt)

\* the body each version answers with once the order is stored
CreateResponse(req, t0, order) ==
    CASE variant = "server"  ->
            CreatedRes(order.id, amountPaise(req.amount), currencyOf(req),
                       OrElse(order.receipt, req.receipt))
      [] variant = "part000" ->
            CreatedRes(order.id, order.amount, order.currency,
                       OrElse(order.receipt, finalReceipt(req, t0)))
      [] variant = "part002" ->
            CreatedRes(order.id, order.amount, order.currency,
                       finalReceipt(req, t0))

\* part_002 without the gateway: rzpOrder = {id: `cod_${Date.now()}`, ...}
codOrder(req) ==
    [id |-> Str("cod_" \o ToString(now)), amount |-> amountPaise(req.amount),
     currency |-> currencyOf(req), receipt |-> Undefined]

\* the handler answers 400 or 500 without calling the gateway
CreateOrderRejected ==
    /\ last = Idle
    /\ \E amount \in AmountInputs, currency \in CurrencyInputs,
       receipt \in ReceiptInputs, cod \in CodInputs :
        LET req == CreateReq(amount, currency, receipt, cod) IN
        /\ CreateRejects(req) # 0
        /\ Respond("create", req, ErrorRes(CreateRejects(req)), {})
        /\ UNCHANGED <<auth, running, config, orders, now, gwSeq>>

\* the gateway answers: the handler stores the order and responds
CreateOrderGateway ==
    /\ last = Idle
    /\ \E amount \in AmountInputs, currency \in CurrencyInputs,
       receipt \in ReceiptInputs, cod \in CodInputs, t0 \in 1..now :
        LET req == CreateReq(amount, currency, receipt, cod) IN
        /\ CreateRejects(req) = 0 /\ CallsGateway(req)
        /\ RZP_KEY_ID # "" /\ RZP_KEY_SECRET # ""
        /\ gwSeq < MaxOrders
        /\ Len(orders) < MaxOrders
        /\ gwSeq' = gwSeq + 1
        /\ PushOrder(req, StoredOrder(req, t0, rzpOrder(options(req, t0))),
                     CreateResponse(req, t0, rzpOrder(options(req, t0))),
                     {ordersCreate})
        /\ UNCHANGED <<auth, running, config, now>>

\* the gateway call throws (network, authentication): catch, respond 500
CreateOrderFails ==
    /\ last = Idle
    /\ \E amount \in AmountInputs, currency \in CurrencyInputs,
       receipt \in ReceiptInputs, cod \in CodInputs :
        LET req == CreateReq(amount, currency, receipt, cod) IN
        /\ CreateRejects(req) = 0 /\ CallsGateway(req)
        /\ Respond("create", req, ErrorRes(500), {ordersCreate})
        /\ UNCHANGED <<auth, running, config, orders, now, gwSeq>>

\* part_002 without the gateway: cod was asked for, or razorpay is null
CreateOrderCod ==
    /\ last = Idle
    /\ \E amount \in AmountInputs, currency \in CurrencyInputs,
       receipt \in ReceiptInputs, cod \in CodInputs :
        LET req == CreateReq(amount, currency, receipt, cod) IN
        /\ variant = "part002"
        /\ CreateRejects(req) = 0 /\ ~CallsGateway(req)
        /\ Len(orders) < MaxOrders
        /\ PushOrder(req, StoredOrder(req, now, codOrder(req)),
                     CreateResponse(req, now, codOrder(req)), {})
        /\ UNCHANGED <<auth, running, config, now, gwSeq>>

----------------------------------------------------------------------------
(* POST /verify-payment *)
OrderIdInputs   == {Undefined, Str("order_1"), Str("order_2")}
PaymentIdInputs == {Undefined, Str("pay_1")}

\* no signature, a garbage one, and the one the gateway issues for this
\* payment of this order
SignatureInputs(oid, pid) ==
    {Undefined, Str("xyz")} \cup
    (IF oid # Undefined /\ pid # Undefined
     THEN {Str(generated_signature(RZP_KEY_SECRET, oid, pid))} ELSE {})

VerifyReq(oid, pid, sig, receipt) ==
    [NoReq EXCEPT !.razorpay_order_id = oid, !.razorpay_payment_id = pid,
                  !.razorpay_signature = sig, !.receipt = receipt]

\* the status the handler answers with before it looks at the signature,
\* 0 when it goes on
VerifyRejects(req) ==
    LET missing == \/ ~Truthy(req.razorpay_order_id)
                   \/ ~Truthy(req.razorpay_payment_id)
                   \/ ~Truthy(req.razorpay_signature)
    IN CASE variant = "server"  -> IF missing THEN 400 ELSE 0
         [] variant = "part000" ->
                IF missing THEN 400 ELSE IF RZP_KEY_SECRET = "" THEN 500 ELSE 0
         [] variant = "part002" -> 0

\* a variant that reports a payment as verified only when the order is on file
verifiedIfOnFile(req) ==
    /\ Str(generated_signature(RZP_KEY_SECRET, req.razorpay_order_id,
                               req.razorpay_payment_id)) = req.razorpay_signature
    /\ \E i \in 1..Len(orders) :
          orders[i].razorpay_order_id = req.razorpay_order_id

\* const verified = generated === razorpay_signature
verified(req) ==
    Str(generated_signature(RZP_KEY_SECRET, req.razorpay_order_id,
                            req.razorpay_payment_id)) = req.razorpay_signature

\* the predicate given to findIndex
VerifyMatches(o, req) ==
    IF variant = "part002"
    THEN \/ o.razorpay_order_id = req.razorpay_order_id
         \/ o.receipt = req.receipt
    ELSE \/ o.razorpay_order_id = req.razorpay_order_id
         \/ ToStr(o.receipt) = ToStr(req.receipt)

\* a variant that treats a second verification of a paid order as a replay
MarkPaidOnce(o, req, t) ==
    IF o.status = "paid"
    THEN [o EXCEPT !.status = "payment_failed"]
    ELSE [o EXCEPT !.status = "paid",
                   !.razorpay_payment_id = req.razorpay_payment_id,
                   !.razorpay_signature = req.razorpay_signature,
                   !.paid_at = t]

\* the order at idx after a verified call answered at time t
MarkPaid(o, req, t) ==
    IF variant = "part002"
    THEN [o EXCEPT !.status = "paid",
                   !.razorpay_payment_id = req.razorpay_payment_id]
    ELSE [o EXCEPT !.status = "paid",
                   !.razorpay_payment_id = req.razorpay_payment_id,
                   !.razorpay_signature = req.razorpay_signature,
                   !.paid_at = t]

\* the order at idx after a call whose signature did not match
MarkFailed(o, req) ==
    IF variant = "part002"
    THEN [o EXCEPT !.status = "payment_failed",
                   !.razorpay_payment_id = req.razorpay_payment_id]
    ELSE [o EXCEPT !.status = "payment_failed"]

\* db.orders after the handler has run on db.orders = os at time t
verify_payment(os, req, t) ==
    LET Match(o) == VerifyMatches(o, req)
        idx == findIndex([k \in 1..Len(os) |-> Match(os[k])])
    IN IF VerifyRejects(req) # 0 \/ idx = -1 THEN os
       ELSE [os EXCEPT ![idx + 1] =
                IF verified(req) THEN MarkPaid(@, req, t) ELSE MarkFailed(@, req)]

VerifyRes(req) ==
    IF VerifyRejects(req) # 0 THEN ErrorRes(VerifyRejects(req))
    ELSE [NoRes EXCEPT !.code = 200, !.verified = verified(req)]

\* readDB() once the request is accepted, writeDB(db) when an order is found
VerifyCalls(os, req) ==
    LET Match(o) == VerifyMatches(o, req) IN
    IF VerifyRejects(req) # 0 THEN {}
    ELSE IF findIndex([k \in 1..Len(os) |-> Match(os[k])]) = -1 THEN {readDB}
    ELSE {readDB, writeDB}

VerifyPayment ==
    /\ last = Idle
    /\ \E oid \in OrderIdInputs, pid \in PaymentIdInputs, receipt \in ReceiptInputs :
       \E sig \in SignatureInputs(oid, pid) :
        LET req == VerifyReq(oid, pid, sig, receipt) IN
        /\ orders' = verify_payment(orders, req, now)
        /\ Respond("verify", req, VerifyRes(req), VerifyCalls(orders, req))
        /\ UNCHANGED <<auth, running, config, now, gwSeq>>

----------------------------------------------------------------------------
(* PATCH /update-status/:id and DELETE /delete-order/:id (part_002 only) *)
KeyInputs    == {"order_1", "r1"}
\* a field may be absent, empty or filled in
StatusInputs == {Undefined, Str(""), Str("shipped")}
EtaInputs    == {Undefined, Str(""), Str("2024-01-01")}

KeyReq(id, status, eta) ==
    [NoReq EXCEPT !.id = Str(id), !.status = status, !.eta = eta]

\* o.razorpay_order_id === id || o.receipt === id
KeyMatches(o, id) == o.razorpay_order_id = Str(id) \/ o.receipt = Str(id)

\* a variant that writes both fields whatever the request holds
ApplyUpdateBoth(o, req) ==
    [o EXCEPT !.status = ToStr(req.status), !.eta = req.eta]

\* if (status) ...status = status; if (eta) ...eta = eta
ApplyUpdate(o, req) ==
    [o EXCEPT !.status = IF Truthy(req.status) THEN req.status.v ELSE @,
              !.eta    = IF Truthy(req.eta) THEN req.eta ELSE @]

update_status(os, req) ==
    LET Match(o) == KeyMatches(o, req.id.v)
        idx == findIndex([k \in 1..Len(os) |-> Match(os[k])])
    IN IF idx = -1 THEN os ELSE [os EXCEPT ![idx + 1] = ApplyUpdate(@, req)]

UpdateStatus ==
    /\ last = Idle
    /\ \E id \in KeyInputs, status \in StatusInputs, eta \in EtaInputs :
        LET req == KeyReq(id, status, eta)
            Match(o) == KeyMatches(o, id)
        IN
        /\ variant = "part002"
        /\ orders' = update_status(orders, req)
        /\ Respond("update", req,
                   ErrorRes(IF findIndex([k \in 1..Len(orders) |-> Match(orders[k])]) = -1
                            THEN 404 ELSE 200),
                   IF findIndex([k \in 1..Len(orders) |-> Match(orders[k])]) = -1
                   THEN {readDB} ELSE {readDB, writeDB})
        /\ UNCHANGED <<auth, running, config, now, gwSeq>>

\* a variant that removes only the first order that matches
delete_first(os, id) ==
    LET hit(k) == os[k].razorpay_order_id = Str(id) \/ os[k].receipt = Str(id)
        hits   == {k \in 1..Len(os) : hit(k)}
    IN IF hits = {} THEN os
       ELSE LET k == CHOOSE m \in hits : \A n \in hits : m <= n
            IN SubSeq(os, 1, k - 1) \o SubSeq(os, k + 1, Len(os))

\* db.orders.filter(o => o.razorpay_order_id !== id && o.receipt !== id)
delete_order(os, id) ==
    LET Keep(o) == o.razorpay_order_id # Str(id) /\ o.receipt # Str(id)
    IN SelectSeq(os, Keep)

DeleteOrder ==
    /\ last = Idle
    /\ \E id \in KeyInputs :
        /\ variant = "part002"
        /\ orders' = delete_order(orders, id)
        /\ Respond("delete", KeyReq(id, Undefined, Undefined), ErrorRes(200),
                   {readDB, writeDB})
        /\ UNCHANGED <<auth, running, config, now, gwSeq>>

\* the clock advances between handlers
Tick ==
    /\ last = Idle
    /\ now < MaxTime
    /\ now' = now + 1
    /\ UNCHANGED <<auth, running, config, orders, gwSeq, last>>

\* res.json(...): the response leaves the server
Deliver ==
    /\ last # Idle
    /\ last' = Idle
    /\ UNCHANGED <<auth, running, config, orders, now, gwSeq>>

Next ==
    \/ Tick
    \/ Deliver
    \/ CreateOrderRejected
    \/ CreateOrderGateway
    \/ CreateOrderFails
    \/ CreateOrderCod
    \/ VerifyPayment
    \/ UpdateStatus
    \/ DeleteOrder

Spec == Init /\ [][Next]_vars

----------------------------------------------------------------------------
(* The handlers step by step.  Every handler that reaches the store does   *)
(*     const db = readDB(); ...change db.orders...; writeDB(db); res.json()  *)
(* in one synchronous block.  Here the read and the write are two steps,    *)
(* the write may fail, and `running` holds the handlers between the two.    *)

MaxRunning == 2

\* the requests of this finer specification
StepReceiptInputs == {Undefined, Str("r1")}
StepAmountInputs  == {Rupees(500000)}

NoGwOrder == [id |-> Undefined, amount |-> 0, currency |-> Undefined,
              receipt |-> Undefined]

\* a handler that has read the document: db is what readDB() returned
Handler(op, req, t0, order, db) ==
    [op |-> op, req |-> req, t0 |-> t0, order |-> order, db |-> db]

\* a variant with an await between readDB() and writeDB(db)
awaitsEveryWrite == TRUE

\* whether the handlers await anything between readDB() and writeDB(db): none
\* does, the calls are consecutive synchronous statements
awaitsBeforeWrite == FALSE

\* Node starts another callback only when the running one has returned or
\* awaits
eventLoopFree ==
    running = <<>> \/ (awaitsBeforeWrite /\ Len(running) < MaxRunning)

\* const db = readDB()
Enter(h) ==
    /\ running' = Append(running, h)
    /\ UNCHANGED <<auth, config, orders, now, last>>

\* whether the handler gets to writeDB(db)
writes(h) ==
    LET Match(o) == IF h.op = "verify" THEN VerifyMatches(o, h.req)
                    ELSE KeyMatches(o, h.req.id.v)
    IN IF h.op \in {"verify", "update"}
       THEN findIndex([k \in 1..Len(h.db) |-> Match(h.db[k])]) # -1
       ELSE TRUE

\* db.orders as the handler leaves it
mutated(h) ==
    CASE h.op = "create" -> Append(h.db, StoredOrder(h.req, h.t0, h.order))
      [] h.op = "verify" -> verify_payment(h.db, h.req, now)
      [] h.op = "update" -> update_status(h.db, h.req)
      [] h.op = "delete" -> delete_order(h.db, h.req.id.v)

\* the body of res.json(...), computed from db in memory
answer(h) ==
    CASE h.op = "create" -> CreateResponse(h.req, h.t0, h.order)
      [] h.op = "verify" -> VerifyRes(h.req)
      [] h.op = "update" -> ErrorRes(IF writes(h) THEN 200 ELSE 404)
      [] h.op = "delete" -> ErrorRes(200)

\* the calls made by a handler that has read the document
callsOf(h) ==
    (IF h.op = "create" /\ CallsGateway(h.req) THEN {ordersCreate} ELSE {}) \cup
    (IF writes(h) THEN {readDB, writeDB} ELSE {readDB})


\* a variant in which a failed write is answered like a successful one everywhere
afterFailedWriteQuiet(h) == answer(h)

\* what the handler answers when fs.writeFileSync throws: writeDB of part_000
\* and part_002 catches and logs, saveDB of server.js lets it through to the
\* catch of the handler, which answers 500
afterFailedWrite(h) ==
    IF variant = "server" THEN ErrorRes(500) ELSE answer(h)

\* running without its k-th handler
Leave(k) ==
    running' = SubSeq(running, 1, k - 1) \o SubSeq(running, k + 1, Len(running))

\* POST /create-order from the answer of the gateway (or from the start, for
\* cash on delivery) to readDB()
LoadCreate ==
    /\ last = Idle /\ eventLoopFree
    /\ \E amount \in StepAmountInputs, receipt \in StepReceiptInputs,
          cod \in CodInputs, t0 \in 1..now :
        LET req   == CreateReq(amount, Undefined, receipt, cod)
            viaGw == CallsGateway(req)
        IN
        /\ CreateRejects(req) = 0
        /\ viaGw => (RZP_KEY_ID # "" /\ RZP_KEY_SECRET # "" /\ gwSeq < MaxOrders)
        /\ ~viaGw => t0 = now
        /\ Len(orders) + Len(running) < MaxOrders
        /\ gwSeq' = IF viaGw THEN gwSeq + 1 ELSE gwSeq
        /\ Enter(Handler("create", req, t0,
                         IF viaGw THEN rzpOrder(options(req, t0)) ELSE codOrder(req),
                         orders))

\* POST /verify-payment up to readDB()
LoadVerify ==
    /\ last = Idle /\ eventLoopFree
    /\ \E sig \in SignatureInputs(Str("order_1"), Str("pay_1")) :
        LET req == VerifyReq(Str("order_1"), Str("pay_1"), sig, Undefined) IN
        /\ VerifyRejects(req) = 0
        /\ Enter(Handler("verify", req, now, NoGwOrder, orders))
        /\ UNCHANGED gwSeq

\* PATCH /update-status/:id up to readDB()
LoadUpdate ==
    /\ last = Idle /\ eventLoopFree
    /\ variant = "part002"
    /\ \E id \in KeyInputs :
        /\ Enter(Handler("update", KeyReq(id, Str("shipped"), Undefined), now,
                         NoGwOrder, orders))
        /\ UNCHANGED gwSeq

\* DELETE /delete-order/:id up to readDB()
LoadDelete ==
    /\ last = Idle /\ eventLoopFree
    /\ variant = "part002"
    /\ \E id \in KeyInputs :
        /\ Enter(Handler("delete", KeyReq(id, Undefined, Undefined), now,
                         NoGwOrder, orders))
        /\ UNCHANGED gwSeq

\* the rest of the handler: writeDB(db) succeeds (or is not reached), res.json
Finish ==
    /\ last = Idle
    /\ \E k \in 1..Len(running) :
        LET h == running[k] IN
        /\ orders' = IF writes(h) THEN mutated(h) ELSE orders
        /\ Respond(h.op, h.req, answer(h), callsOf(h))
        /\ Leave(k)
        /\ UNCHANGED <<auth, config, now, gwSeq>>

\* the rest of the handler when fs.writeFileSync throws
FinishWriteFails ==
    /\ last = Idle
    /\ \E k \in 1..Len(running) :
        LET h == running[k] IN
        /\ writes(h)
        /\ orders' = orders
        /\ Respond(h.op, h.req, afterFailedWrite(h), callsOf(h))
        /\ Leave(k)
        /\ UNCHANGED <<auth, config, now, gwSeq>>

StepNext ==
    \/ Tick
    \/ Deliver
    \/ LoadCreate
    \/ LoadVerify
    \/ LoadUpdate
    \/ LoadDelete
    \/ Finish
    \/ FinishWriteFails

StepSpec == Init /\ [][StepNext]_vars

----------------------------------------------------------------------------
(* The comparison of signatures in POST /verify-payment, character by      *)
(* character.  A signature is the sequence of its hex digits.              *)

SigLen == 3

HexDigits == {"0", "7", "f"}

\* what hmac.digest("hex") can give
Digests == [1..SigLen -> HexDigits]

\* what a client can send as razorpay_signature
SuppliedSignatures == UNION {[1..n -> HexDigits] : n \in 0..SigLen}

\* the characters a === b looks at when it goes through two strings of the
\* same length from the left and stops at the first pair that differs
RECURSIVE examinedFrom(_, _, _)
examinedFrom(a, b, i) ==
    IF i > Len(a) THEN Len(a)
    ELSE IF a[i] # b[i] THEN i
    ELSE examinedFrom(a, b, i + 1)

\* generated === razorpay_signature: strings of different lengths are unequal
\* without a look at their characters
strictEqualsExamines(a, b) ==
    IF Len(a) # Len(b) THEN 0 ELSE examinedFrom(a, b, 1)

\* const verified = generated === razorpay_signature
CompareSignature ==
    /\ \E generated \in Digests, razorpay_signature \in SuppliedSignatures :
          compared' = [generated |-> generated,
                       razorpay_signature |-> razorpay_signature,
                       verified |-> generated = razorpay_signature,
                       examined |-> strictEqualsExamines(generated,
                                                         razorpay_signature)]
    /\ UNCHANGED <<config, orders, now, gwSeq, last, running, users, rnd>>

CompareNext == CompareSignature

CompareSpec == Init /\ [][CompareNext]_vars

----------------------------------------------------------------------------
(* Accounts: POST /register, POST /login, GET /me (part_002 only)          *)

MaxUsers == 2
MaxRnd   == 5

NameInputs     == {Undefined, Str("n")}
EmailInputs    == {Undefined, Str("a@x"), Str("A@x"), Str("b@x")}
PasswordInputs == {Undefined, Str("p"), Str("q")}

\* a variant that compares and stores emails as they are written
toLowerCaseAsIs(s) == s

\* String.prototype.toLowerCase on the emails in use
toLowerCase(s) == IF s = "A@x" THEN "a@x" ELSE s

\* crypto.pbkdf2Sync(String(password), salt, ...).toString("hex")
hashPassword(password, salt) == <<ToStr(password), salt>>

\* crypto.timingSafeEqual over the two hashes
verifyPassword(password, salt, hashed) == hashPassword(password, salt) = hashed

\* the n-th value crypto.randomBytes gives: no two alike
randomBytes(n) == n

\* req.body of /register and /login, the bearer token of /me (0: no header)
AuthReq(name, email, password, token) ==
    [name |-> name, email |-> email, password |-> password, token |-> token]

\* res.status(code).json({error}) / res.json({success, user, token})
AuthRes(code, error, email, token) ==
    [code |-> code, error |-> error, email |-> email, token |-> token]

\* db.users.find((u) => String(u.email).toLowerCase() === String(email).toLowerCase())
RECURSIVE findUserFrom(_, _, _)
findUserFrom(us, email, i) ==
    IF i > Len(us) THEN 0
    ELSE IF toLowerCase(us[i].email) = toLowerCase(ToStr(email)) THEN i
    ELSE findUserFrom(us, email, i + 1)

findUser(us, email) == findUserFrom(us, email, 1)

\* db.users.find((u) => u.token === token)
RECURSIVE findTokenFrom(_, _, _)
findTokenFrom(us, token, i) ==
    IF i > Len(us) THEN 0
    ELSE IF us[i].token = token THEN i
    ELSE findTokenFrom(us, token, i + 1)

findToken(us, token) == findTokenFrom(us, token, 1)

RegisterRejects(req) ==
    IF ~Truthy(req.email) \/ ~Truthy(req.password) \/ ~Truthy(req.name)
    THEN "Missing fields"
    ELSE IF findUser(users, req.email) # 0 THEN "User already exists"
    ELSE ""

Register ==
    /\ last = Idle
    /\ variant = "part002"
    /\ \E name \in NameInputs, email \in EmailInputs, password \in PasswordInputs :
        LET req   == AuthReq(name, email, password, 0)
            salt  == randomBytes(rnd + 1)
            token == randomBytes(rnd + 2)
            user  == [id |-> now, name |-> ToStr(name),
                      email |-> toLowerCase(ToStr(email)), salt |-> salt,
                      password |-> hashPassword(password, salt),
                      token |-> token]
        IN
        IF RegisterRejects(req) # ""
        THEN /\ Respond("register", req,
                        AuthRes(400, RegisterRejects(req), "", 0),
                        IF RegisterRejects(req) = "Missing fields" THEN {}
                        ELSE {readDB})
             /\ UNCHANGED <<users, rnd>>
        ELSE /\ Len(users) < MaxUsers /\ rnd + 2 <= MaxRnd
             /\ users' = Append(users, user)
             /\ rnd' = rnd + 2
             /\ Respond("register", req, AuthRes(200, "", user.email, token),
                        {readDB, writeDB})
    /\ UNCHANGED <<config, orders, now, gwSeq, running, compared>>

\* a variant of the login that keeps the token the user has
rotatedKept(user, fresh) == user

\* user.token = genToken()
rotated(user, fresh) == [user EXCEPT !.token = fresh]

LoginRejects(req) ==
    IF ~Truthy(req.email) \/ ~Truthy(req.password) THEN "Missing fields"
    ELSE IF findUser(users, req.email) = 0 THEN "Invalid credentials"
    ELSE IF ~verifyPassword(req.password, users[findUser(users, req.email)].salt,
                            users[findUser(users, req.email)].password)
         THEN "Invalid credentials"
    ELSE ""

Login ==
    /\ last = Idle
    /\ variant = "part002"
    /\ \E email \in EmailInputs, password \in PasswordInputs :
        LET req == AuthReq(Undefined, email, password, 0)
            i   == findUser(users, email)
        IN
        IF LoginRejects(req) # ""
        THEN /\ Respond("login", req, AuthRes(400, LoginRejects(req), "", 0),
                        IF LoginRejects(req) = "Missing fields" THEN {}
                        ELSE {readDB})
             /\ UNCHANGED <<users, rnd>>
        ELSE /\ rnd + 1 <= MaxRnd
             /\ users' = [users EXCEPT ![i] = rotated(users[i], randomBytes(rnd + 1))]
             /\ rnd' = rnd + 1
             /\ Respond("login", req,
                        AuthRes(200, "", users'[i].email, users'[i].token),
                        {readDB, writeDB})
    /\ UNCHANGED <<config, orders, now, gwSeq, running, compared>>

\* the answer of GET /me to a bearer token, over the users on file
me(us, token) ==
    IF token = 0 THEN AuthRes(401, "missing_token", "", 0)
    ELSE IF findToken(us, token) = 0 THEN AuthRes(401, "invalid_token", "", 0)
    ELSE AuthRes(200, "", us[findToken(us, token)].email, 0)

\* the tokens a client can present: none, any value given out so far, one
\* that never was
TokenInputs == 0..(rnd + 1)

Me ==
    /\ last = Idle
    /\ variant = "part002"
    /\ \E token \in TokenInputs :
        Respond("me", AuthReq(Undefined, Undefined, Undefined, token),
                me(users, token), IF token = 0 THEN {} ELSE {readDB})
    /\ UNCHANGED <<config, orders, now, gwSeq, running, users, rnd, compared>>

AuthNext ==
    \/ Deliver
    \/ Register
    \/ Login
    \/ Me

AuthSpec == Init /\ [][AuthNext]_vars

----------------------------------------------------------------------------
(* What the claims speak of *)

\* a field of a request that the caller supplied
Supplied(x) == x # Undefined

\* order o has the supplied gateway order id or the supplied receipt
Correlates(o, oid, receipt) ==
    \/ Supplied(oid) /\ o.razorpay_order_id = oid
    \/ Supplied(receipt) /\ o.receipt = receipt

\* the position (1-based) of the earliest-inserted order that correlates, 0 if none
EarliestMatch(os, oid, receipt) ==
    IF \E i \in 1..Len(os) : Correlates(os[i], oid, receipt)
    THEN CHOOSE i \in 1..Len(os) :
            /\ Correlates(os[i], oid, receipt)
            /\ \A j \in 1..(i - 1) : ~Correlates(os[j], oid, receipt)
    ELSE 0

\* HMAC-SHA256(secret, gatewayOrderId + "|" + gatewayPaymentId), lowercase hex
ExpectedSignature(oid, pid) == Str(Hmac(RZP_KEY_SECRET, oid.v \o "|" \o pid.v))

\* the preconditions of VerifyPayment
AllSupplied(req) ==
    /\ Supplied(req.razorpay_order_id)
    /\ Supplied(req.razorpay_payment_id)
    /\ Supplied(req.razorpay_signature)

\* the state right after a handler has answered
Answered(op) == last.op = op

\* the step in which a handler answers
Answers(op) == last.op = "none" /\ last'.op = op

----------------------------------------------------------------------------
\* C1: when VerifyPayment finds a matching order, that order ends with status
\* paid, the supplied payment id and signature and a paidAt time if the
\* signature verified, and with status payment_failed if it did not.
C1_VerifySetsOrder ==
    LET req == last.req
        i   == EarliestMatch(orders, req.razorpay_order_id, req.receipt)
    IN (Answered("verify") /\ last.res.code = 200 /\ i # 0) =>
           IF last.res.verified
           THEN /\ orders[i].status = "paid"
                /\ orders[i].razorpay_payment_id = req.razorpay_payment_id
                /\ orders[i].razorpay_signature = req.razorpay_signature
                /\ orders[i].paid_at = now
           ELSE orders[i].status = "payment_failed"

----------------------------------------------------------------------------
\* C2: for a VerifyPayment call with the secret configured and all three
\* fields supplied, the verified flag of the answer is true exactly when the
\* supplied signature is HMAC-SHA256(secret, orderId + "|" + paymentId),
\* whatever the store holds.
C2_VerifiedIffSignature ==
    (Answered("verify") /\ AllSupplied(last.req) /\ RZP_KEY_SECRET # "") =>
        (last.res.verified <=>
            last.req.razorpay_signature =
                ExpectedSignature(last.req.razorpay_order_id,
                                  last.req.razorpay_payment_id))

\* a call answered verified while the store holds orders and none correlates
C2_Witness ==
    /\ Answered("verify") /\ AllSupplied(last.req) /\ RZP_KEY_SECRET # ""
    /\ last.res.verified
    /\ orders # <<>>
    /\ EarliestMatch(orders, last.req.razorpay_order_id, last.req.receipt) = 0

\* a call answered not verified for an order that is in the store
C2_WitnessRefused ==
    /\ Answered("verify") /\ AllSupplied(last.req) /\ RZP_KEY_SECRET # ""
    /\ ~last.res.verified
    /\ EarliestMatch(orders, last.req.razorpay_order_id, last.req.receipt) # 0

----------------------------------------------------------------------------
\* C3: every stored order whose status is paid has a payment id and a
\* signature, and the signature is HMAC-SHA256(secret, its gatewayOrderId +
\* "|" + its gatewayPaymentId).
C3_PaidIsSigned ==
    \A i \in 1..Len(orders) :
        orders[i].status = "paid" =>
            /\ Supplied(orders[i].razorpay_payment_id)
            /\ Supplied(orders[i].razorpay_signature)
            /\ orders[i].razorpay_signature =
                  ExpectedSignature(orders[i].razorpay_order_id,
                                    orders[i].razorpay_payment_id)

----------------------------------------------------------------------------
\* C4: an order carries a payment id or a signature only if a VerifyPayment
\* call with a verified signature matched it: a step leaves an order with a
\* payment id or signature it did not have before only when that step is the
\* answer to a VerifyPayment call whose signature verified.
HasPaymentFields(o) ==
    Supplied(o.razorpay_payment_id) \/ Supplied(o.razorpay_signature)

SamePaymentFields(o, p) ==
    /\ o.razorpay_payment_id = p.razorpay_payment_id
    /\ o.razorpay_signature = p.razorpay_signature

\* the order at position i after the step had the same payment fields before it
CarriedOver(i) ==
    IF last'.op = "delete"
    THEN \E j \in 1..Len(orders) : orders[j] = orders'[i]
    ELSE i <= Len(orders) /\ SamePaymentFields(orders[i], orders'[i])

C4_PaymentFieldsOnlyWhenVerified ==
    [][\A i \in 1..Len(orders') :
          (HasPaymentFields(orders'[i]) /\ ~CarriedOver(i)) =>
              (last'.op = "verify" /\ last'.res.verified)]_vars

----------------------------------------------------------------------------
\* C5: VerifyPayment changes an order's status only from created: to paid on
\* a verified signature, to payment_failed on a bad one.  It never moves a
\* paid order to payment_failed nor a payment_failed order to paid.
C5_VerifyOnlyLeavesCreated ==
    [][Answers("verify") =>
          \A i \in 1..Len(orders) :
              orders'[i].status # orders[i].status =>
                  /\ orders[i].status = "created"
                  /\ orders'[i].status =
                        IF last'.res.verified THEN "paid" ELSE "payment_failed"]_vars

----------------------------------------------------------------------------
\* C6: VerifyPayment is idempotent.  After a call that verified and found
\* its order, the same call made again (now or later) is answered the same
\* way and leaves the order paid with the same payment id and signature; it
\* may rewrite paid_at and changes no other order.
SameButPaidAt(o, p) == [o EXCEPT !.paid_at = 0] = [p EXCEPT !.paid_at = 0]

VerifiedAndFound ==
    LET Match(o) == VerifyMatches(o, last.req) IN
    /\ Answered("verify") /\ last.res.code = 200 /\ last.res.verified
    /\ findIndex([k \in 1..Len(orders) |-> Match(orders[k])]) # -1

C6_VerifyIdempotent ==
    VerifiedAndFound =>
        \A t \in now..MaxTime :
            LET Match(o) == VerifyMatches(o, last.req)
                i     == findIndex([k \in 1..Len(orders) |-> Match(orders[k])]) + 1
                again == verify_payment(orders, last.req, t)
            IN /\ VerifyRes(last.req) = last.res
               /\ Len(again) = Len(orders)
               /\ again[i].status = "paid" /\ orders[i].status = "paid"
               /\ SameButPaidAt(again[i], orders[i])
               /\ \A j \in 1..Len(orders) : j # i => again[j] = orders[j]

\* a verified call has found its order while a second order is in the store
C6_Witness ==
    /\ VerifiedAndFound /\ Len(orders) = 2 /\ now < MaxTime
    /\ last.req.razorpay_signature =
          ExpectedSignature(last.req.razorpay_order_id,
                            last.req.razorpay_payment_id)

----------------------------------------------------------------------------
\* C7: a VerifyPayment call that lacks the order id, the payment id or the
\* signature, or that arrives when no secret is configured, is answered with
\* an error and changes no stored order.
C7_VerifyPreconditions ==
    [][(Answers("verify") /\ (~AllSupplied(last'.req) \/ RZP_KEY_SECRET = "")) =>
          (last'.res.code >= 400 /\ orders' = orders)]_vars

----------------------------------------------------------------------------
\* C8: when no stored order has the supplied gateway order id or the supplied
\* receipt, VerifyPayment leaves the orders collection as it was, whether the
\* signature verified or not.
C8_NoMatchNoChange ==
    [][(Answers("verify") /\
        EarliestMatch(orders, last'.req.razorpay_order_id, last'.req.receipt) = 0)
          => orders' = orders]_vars

----------------------------------------------------------------------------
\* C9: VerifyPayment and UpdateStatus change at most the earliest-inserted
\* order whose gateway order id equals the supplied id or whose receipt equals
\* the supplied receipt (for UpdateStatus, the key); every other order, later
\* matches included, stays as it was.
ActsOnEarliest(oid, receipt) ==
    /\ Len(orders') = Len(orders)
    /\ \A i \in 1..Len(orders) :
          orders'[i] # orders[i] => i = EarliestMatch(orders, oid, receipt)

C9_OnlyEarliestMatchChanges ==
    [][/\ Answers("verify") =>
             ActsOnEarliest(last'.req.razorpay_order_id, last'.req.receipt)
       /\ Answers("update") => ActsOnEarliest(last'.req.id, last'.req.id)]_vars

----------------------------------------------------------------------------
\* C10: a CreateOrder that succeeds appends exactly one order, with status
\* created, at the end of the collection, leaves the orders already stored as
\* they were, and answers with the gateway order id, amount in minor units,
\* currency and receipt that the new order holds.
C10_CreateAppends ==
    [][(Answers("create") /\ last'.res.code = 200) =>
          /\ Len(orders') = Len(orders) + 1
          /\ SubSeq(orders', 1, Len(orders)) = orders
          /\ LET o == orders'[Len(orders')] IN
                /\ o.status = "created"
                /\ last'.res.order_id = o.razorpay_order_id
                /\ last'.res.amount = o.amount_paise
                /\ last'.res.currency = o.currency
                /\ last'.res.receipt = o.receipt]_vars

\* a create has succeeded behind an order stored earlier, with a receipt the
\* server made up
C10_Witness ==
    /\ Answered("create") /\ last.res.code = 200
    /\ Len(orders) = 2
    /\ last.req.receipt = Undefined
    /\ orders[2].receipt = last.res.receipt

----------------------------------------------------------------------------
\* C11: for every CreateOrder that succeeds, by the gateway or as cash on
\* delivery, the amount_paise of the stored order and the amount answered to
\* the caller are both the requested amount times 100, rounded to the nearest
\* whole paisa.
\* p is the whole number of paise nearest to the amount (in thousandths)
NearestPaise(amount, p) == 10 * p - 5 <= amount.n /\ amount.n < 10 * p + 5

C11_WitnessGateway ==
    /\ Answered("create") /\ last.res.code = 200 /\ ~last.req.cod
    /\ last.req.amount = Rupees(1006)
    /\ orders[Len(orders)].amount_paise = 101 /\ last.res.amount = 101

----------------------------------------------------------------------------
\* C12: a CreateOrder without an amount is rejected before the gateway is
\* called and before the store is read or written, and a CreateOrder whose
\* gateway call fails answers with a failure and stores nothing; either way
\* the stored orders are as they were.
C12_FailedCreateStoresNothing ==
    [][Answers("create") =>
          /\ ~TruthyNum(last'.req.amount) =>
                (last'.res.code = 400 /\ last'.calls = {} /\ orders' = orders)
          /\ last'.res.code # 200 =>
                (last'.res.code >= 400 /\ orders' = orders /\ writeDB \notin last'.calls)
          /\ last'.res.code = 200 => writeDB \in last'.calls]_vars

\* the gateway call of a well-formed request has failed while an order is on file
C12_Witness ==
    /\ Answered("create") /\ last.res.code = 500
    /\ TruthyNum(last.req.amount) /\ ordersCreate \in last.calls
    /\ Len(orders) >= 1

\* a request without an amount has been rejected while an order is on file
C12_WitnessNoAmount ==
    /\ Answered("create") /\ last.res.code = 400
    /\ ~TruthyNum(last.req.amount) /\ last.calls = {}
    /\ Len(orders) >= 1

----------------------------------------------------------------------------
\* C13: a CreateOrder that asks for cash on delivery never calls the payment
\* gateway; when it has an amount it succeeds and stores an order whose
\* gateway order id is the local cod_<timestamp>, whether or not the gateway
\* keys are configured.
C13_CodSkipsGateway ==
    [][(Answers("create") /\ last'.req.cod) =>
          /\ ordersCreate \notin last'.calls
          /\ gwSeq' = gwSeq
          /\ TruthyNum(last'.req.amount) =>
                /\ last'.res.code = 200
                /\ Len(orders') = Len(orders) + 1
                /\ orders'[Len(orders')].razorpay_order_id =
                      Str("cod_" \o ToString(now))]_vars

\* a cash-on-delivery order has been stored by a server whose environment
\* sets no gateway keys
C13_Witness ==
    /\ Answered("create") /\ last.req.cod /\ last.res.code = 200
    /\ RAZORPAY_KEY_ID = "" /\ RAZORPAY_KEY_SECRET = ""
    /\ orders[Len(orders)].razorpay_order_id = Str("cod_" \o ToString(now))

\* the same with the keys set
C13_WitnessConfigured ==
    /\ Answered("create") /\ last.req.cod /\ last.res.code = 200
    /\ RAZORPAY_KEY_ID # "" /\ RAZORPAY_KEY_SECRET # ""
    /\ orders[Len(orders)].razorpay_order_id = Str("cod_" \o ToString(now))

----------------------------------------------------------------------------
\* C14: when the gateway keys are not configured in the environment, a
\* CreateOrder that does not ask for cash on delivery answers with a failure
\* and appends no order, while one that asks for cash on delivery succeeds.
KeysConfigured == RAZORPAY_KEY_ID # "" /\ RAZORPAY_KEY_SECRET # ""

C14_NoKeysNoGatewayOrder ==
    [][(Answers("create") /\ ~KeysConfigured /\ TruthyNum(last'.req.amount)) =>
          IF last'.req.cod
          THEN last'.res.code = 200 /\ Len(orders') = Len(orders) + 1
          ELSE last'.res.code >= 400 /\ orders' = orders]_vars

----------------------------------------------------------------------------
\* C15: DeleteOrder(key) removes every order whose gateway order id or receipt
\* equals key, keeps every other order, in the same relative order, answers
\* success also when nothing matched, and a second DeleteOrder(key) leaves the
\* store as the first left it.
HasKey(o, key) == o.razorpay_order_id = key \/ o.receipt = key

\* the positions of os whose order does not have the key, in increasing order
RECURSIVE Survivors(_, _, _)
Survivors(os, key, k) ==
    IF k > Len(os) THEN <<>>
    ELSE (IF HasKey(os[k], key) THEN <<>> ELSE <<os[k]>>) \o Survivors(os, key, k + 1)

C15_DeleteRemovesAllMatches ==
    [][Answers("delete") =>
          /\ last'.res.code = 200
          /\ orders' = Survivors(orders, last'.req.id, 1)
          /\ \A k \in 1..Len(orders') : ~HasKey(orders'[k], last'.req.id)
          /\ delete_order(orders', last'.req.id.v) = orders']_vars

\* a delete has removed two orders with the same receipt
C15_Witness ==
    /\ Answered("delete") /\ last.res.code = 200
    /\ orders = <<>> /\ gwSeq = 2 /\ last.req.id = Str("r1")

\* a delete that matched nothing has answered success
C15_WitnessNoMatch ==
    /\ Answered("delete") /\ last.res.code = 200
    /\ Len(orders) = 2 /\ last.req.id = Str("r1")

----------------------------------------------------------------------------
\* C16: after DeleteOrder(key), an UpdateStatus with the same key and no
\* CreateOrder in between answers not-found and changes nothing.  Stated step
\* by step: a delete leaves no order with the key; no step other than a
\* successful create gives an order a key that no order had; and an update
\* whose key no order has answers 404 and leaves the orders as they were.
Keys == {Str(k) : k \in KeyInputs}

NoneHasKey(os, key) == \A k \in 1..Len(os) : ~HasKey(os[k], key)

C16_UpdateAfterDeleteNotFound ==
    [][/\ Answers("delete") => NoneHasKey(orders', last'.req.id)
       /\ ~(Answers("create") /\ last'.res.code = 200) =>
             \A key \in Keys : NoneHasKey(orders, key) => NoneHasKey(orders', key)
       /\ (Answers("update") /\ NoneHasKey(orders, last'.req.id)) =>
             (last'.res.code = 404 /\ orders' = orders)]_vars

\* an update has answered not-found for a key that a delete removed, while
\* another order is still on file
C16_Witness ==
    /\ Answered("update") /\ last.res.code = 404
    /\ Len(orders) = 1 /\ gwSeq = 2
    /\ NoneHasKey(orders, last.req.id)

----------------------------------------------------------------------------
\* C17: UpdateStatus on a matching order sets status to the supplied value
\* when status is supplied and eta to the supplied value when eta is supplied,
\* leaves the field that is not supplied and every other field of the order as
\* they were, and accepts any status string; when no order matches it answers
\* not-found and leaves the store as it was.
OtherFieldsKept(o, p) ==
    \A f \in DOMAIN o : f \notin {"status", "eta"} => p[f] = o[f]

\* the step is an update that did to the first order with its key what given
\* says: given(x) tells whether the field value x counts as supplied
UpdateApplies(given(_)) ==
    LET req == last'.req
        i   == EarliestMatch(orders, req.id, req.id)
    IN IF i = 0 THEN last'.res.code = 404 /\ orders' = orders
       ELSE /\ last'.res.code = 200
            /\ Len(orders') = Len(orders)
            /\ \A k \in 1..Len(orders) : k # i => orders'[k] = orders[k]
            /\ OtherFieldsKept(orders[i], orders'[i])
            /\ orders'[i].status =
                  IF given(req.status) THEN req.status.v ELSE orders[i].status
            /\ orders'[i].eta =
                  IF given(req.eta) THEN req.eta ELSE orders[i].eta

\* as claimed: every status or eta in the request, the empty string too, is
\* supplied and is written
C17_UpdateAppliesSupplied ==
    [][Answers("update") => UpdateApplies(Supplied)]_vars

\* as amended: a field that is absent or empty is left as it was
NotEmpty(x) == Supplied(x) /\ x.v # ""

C17_UpdateAppliesNonEmpty ==
    [][Answers("update") => UpdateApplies(NotEmpty)]_vars

\* an update with a status and no eta has been applied to the second order
C17_Witness ==
    /\ Answered("update") /\ last.res.code = 200
    /\ last.req.status = Str("shipped") /\ last.req.eta = Undefined
    /\ Len(orders) = 2
    /\ orders[1].status # "shipped" /\ orders[2].status = "shipped"
    /\ orders[2].eta = Null

----------------------------------------------------------------------------
\* C18: however concurrent CreateOrder calls interleave, no two stored orders
\* have the same id and no two have the same gateway order id, the cod_ ids
\* made up for cash on delivery included.
C18_DistinctIds ==
    \A i, j \in 1..Len(orders) :
        i # j => /\ orders[i].id # orders[j].id
                 /\ orders[i].razorpay_order_id # orders[j].razorpay_order_id

\* the half of it that is about gateway order ids alone
C18_DistinctGatewayOrderIds ==
    \A i, j \in 1..Len(orders) :
        i # j => orders[i].razorpay_order_id # orders[j].razorpay_order_id

\* a handler leaves the event loop with its answer
Finishes == last.op = "none" /\ last'.op # "none" /\ running # <<>>

C19_WitnessLoaded ==
    /\ Len(running) = 1 /\ running[1].op = "verify"
    /\ writes(running[1])
    /\ running[1].db = orders

\* C20: when the write of the document fails, the operation still answers
\* with its normal success result and the stored document keeps its contents
C20_SaveFailureNotSurfaced ==
    [][FinishWriteFails =>
          /\ orders' = orders
          /\ \E k \in 1..Len(running) :
                /\ last'.op = running[k].op /\ last'.req = running[k].req
                /\ last'.res = answer(running[k])
                /\ last'.res.code = 200]_vars

\* the same for the versions whose writeDB catches the error
C20_QuietWhereCaught ==
    [][(FinishWriteFails /\ variant # "server") =>
          /\ orders' = orders
          /\ last'.res.code = 200]_vars

\* C21: the time the comparison of the signatures takes does not depend on
\* how many leading characters of the supplied signature are correct: any
\* other supplied signature of the same length takes the same number of steps
C21_ComparisonConstantTime ==
    compared # NoCompare =>
        \A other \in SuppliedSignatures :
            Len(other) = Len(compared.razorpay_signature)
                => strictEqualsExamines(compared.generated, other)
                       = compared.examined

\* a wrong signature of the right length whose first character is correct
C21_Witness ==
    /\ compared # NoCompare /\ ~compared.verified
    /\ Len(compared.razorpay_signature) = SigLen
    /\ compared.razorpay_signature[1] = compared.generated[1]

\* an email with its letters in capitals
Capitals(s) ==
    CASE s \in {"a@x", "A@x"} -> "A@X"
      [] s = "b@x"            -> "B@X"
      [] OTHER                -> s

SameIgnoringCase(a, b) == Capitals(a) = Capitals(b)

OnFile(us, email) ==
    \E i \in 1..Len(us) : SameIgnoringCase(us[i].email, email)

\* C22: no two users on file have emails that are equal ignoring letter case,
\* and a register with an email that is on file in any case is rejected and
\* leaves the users unchanged
C22_EmailsUniqueIgnoringCase ==
    [][/\ \A i, j \in 1..Len(users') :
            i # j => ~SameIgnoringCase(users'[i].email, users'[j].email)
       /\ (Answers("register") /\ Supplied(last'.req.email)
              /\ OnFile(users, last'.req.email.v))
             => (last'.res.code = 400 /\ users' = users)]_vars

\* a register with the email of a user in other letters is turned down
C22_Witness ==
    /\ Answered("register") /\ last.res.code = 400
    /\ last.res.error = "User already exists"
    /\ last.req.email = Str("A@x")
    /\ Len(users) = 1 /\ users[1].email = "a@x"

\* two users are on file, the first registered in capitals
C22_WitnessTwoUsers ==
    /\ Len(users) = 2
    /\ users[1].email = "a@x" /\ users[2].email = "b@x"
    /\ Answered("login") /\ last.res.code = 200

\* the tokens GET /me accepts as user u
ValidTokens(us, u) ==
    {t \in 1..(MaxRnd + 1) :
        me(us, t).code = 200 /\ me(us, t).email = u.email}

\* the user a login names
Named(us, email) ==
    CHOOSE i \in 1..Len(us) : SameIgnoringCase(us[i].email, email)

\* C23: every user has exactly one valid token; after a successful login
\* /me accepts the token just issued for that user and answers invalid_token
\* to the one the user held before; a failed login leaves the store, and so
\* every user's token, as it was
C23_OneValidToken ==
    [][/\ \A i \in 1..Len(users') : Cardinality(ValidTokens(users', users'[i])) = 1
       /\ (Answers("login") /\ last'.res.code = 200) =>
             LET i == Named(users, last'.req.email.v) IN
             /\ me(users', last'.res.token).code = 200
             /\ me(users', last'.res.token).email = users[i].email
             /\ me(users', users[i].token).code = 401
             /\ me(users', users[i].token).error = "invalid_token"
       /\ (Answers("login") /\ last'.res.code # 200) =>
             /\ users' = users
             /\ \A i \in 1..Len(users) :
                   me(users', users[i].token).code = 200]_vars

\* after a login, /me has turned down the token the user got at registration
C23_Witness ==
    /\ Answered("me") /\ last.res.code = 401
    /\ last.res.error = "invalid_token"
    /\ Len(users) >= 1
    /\ last.req.token = 2 /\ users[1].token = 3

\* a login with the wrong password was refused and the token is still valid
C23_WitnessFailedLogin ==
    /\ Answered("login") /\ last.res.code = 400
    /\ last.res.error = "Invalid credentials"
    /\ last.req.email = Str("a@x") /\ last.req.password = Str("q")
    /\ Len(users) >= 1 /\ users[1].email = "a@x"
    /\ users[1].password = hashPassword(Str("p"), users[1].salt)
    /\ me(users, users[1].token).code = 200

\* /me has accepted the token a login issued
C23_WitnessAccepted ==
    /\ Answered("me") /\ last.res.code = 200
    /\ Len(users) >= 1
    /\ last.req.token = 3 /\ users[1].token = 3

====
